---- MODULE Spec2Model ----
(***************************************************************************)
(* Ledger, redemption and earning handlers of the confectionery loyalty    *)
(* backend, over the relational store they share.                          *)
(*                                                                         *)
(* Every request handler is an async function: the code between two awaits *)
(* runs without interleaving (one event loop), every awaited store call is *)
(* a separate step that other handlers' steps may precede or follow.       *)
(* prisma.$transaction([...]) is one store transaction: its statements are *)
(* applied in order and committed together, or rolled back together.       *)
(***************************************************************************)
EXTENDS Integers, Sequences, FiniteSets, Bags, TLC

\* ------------------------------------------------------------------ bounds
NumHandlers == 2          \* request handlers that may be in flight at once
MaxEarnings == 2          \* earnings are accepted while the store holds fewer transactions
MaxAvailable == 1         \* largest stock an administrator sets
MaxRecorded == 2          \* transactions recorded with the RevenueDistribution contract

PartnerIds == {"p1"}
AdminIds == {"a1"}
RewardIds == {"r1"}
Handlers == 1..NumHandlers

\* request inputs
AmountChoices == {10050}              \* amount in 1/100 KZT (100.50 KZT)
BonusChoices == {100}                 \* points of awardBonusPoints
PointsRequiredChoices == {100, 250}   \* z.number().min(100)
AvailableChoices == 0..MaxAvailable

\* ------------------------------------------------------- program constants
MinPointsRequired == 100

TIER_MULTIPLIERS(tier) ==
    \* multiplier in tenths: 1.0, 1.5, 2.0
    CASE tier = "BRONZE" -> 10
      [] tier = "SILVER" -> 15
      [] tier = "GOLD" -> 20

\* points computed with one rounding of amount * multiplier
calculatePointsOnce(amount, multiplier) ==
    (amount * multiplier) \div 1000

calculatePoints(amount, multiplier) ==
    \* amount in 1/100 KZT, multiplier in tenths
    LET basePoints == amount \div 100
        finalPoints == (basePoints * multiplier) \div 10
    IN finalPoints

\* Math.round(data.amount * 100): the amount is already held in 1/100 KZT
StoredAmount(amount) == amount

\* ------------------------------------------------------------------- state
VARIABLES
    partners,        \* partners table: id -> [tier, status]
    loyaltyPoints,   \* loyalty_points table: partnerId -> [balance, lifetimeEarned, lifetimeRedeemed]
    transactions,    \* transactions table: bag of [partnerId, amount, pointsEarned, type]
    rewards,         \* rewards table: id -> [pointsRequired, available, maxClaims, totalClaimed, isActive]
    claimedRewards,  \* claimed_rewards table: bag of [partnerId, rewardId, pointsSpent, status]
    req,             \* the request handlers: position, inputs, locals, outcome
    revenue,         \* storage of the RevenueDistribution contract
    calls,           \* what the contract's callers have sent it and got back
    registry,        \* storage of the PartnerRegistry contract
    token,           \* storage of the LoyaltyToken contract
    sent             \* the last message to either of them and its exit code

vars == <<partners, loyaltyPoints, transactions, rewards, claimedRewards, req,
          revenue, calls, registry, token, sent>>
store == <<partners, loyaltyPoints, transactions, rewards, claimedRewards>>
chain == <<revenue, calls, registry, token, sent>>

\* findUnique: <<row>> or <<>> (null)
findUnique(table, id) == IF id \in DOMAIN table THEN <<table[id]>> ELSE <<>>

\* ------------------------------------- RevenueDistribution (wrapper, part_010)
\* commission rates with Gold paid at the Silver rate
CommissionRatesGoldAsSilver(tier) ==
    CASE tier = "Bronze" -> 300
      [] tier = "Silver" -> 500
      [] tier = "Gold" -> 500
      [] tier = "Platform" -> 100

\* a deployment that starts with a distributed total
revenueDistributionConfigStale ==
    [total_distributed |-> 1,
     platform_balance |-> 0,
     payout_count |-> 0,
     pending_payouts |-> [a \in {} |-> 0],
     payout_history |-> <<>>]

\* commission rates in basis points (10000 = 100%)
CommissionRates(tier) ==
    CASE tier = "Bronze" -> 300
      [] tier = "Silver" -> 500
      [] tier = "Gold" -> 700
      [] tier = "Platform" -> 100

\* the contract's storage at deployment
revenueDistributionConfigToCell ==
    [total_distributed |-> 0,
     platform_balance |-> 0,
     payout_count |-> 0,
     pending_payouts |-> [a \in {} |-> 0],
     payout_history |-> <<>>]

\* nothing sent to the contract yet
NoCalls ==
    [recorded |-> <<>>,     \* the transactions sent with record_transaction
     last |-> <<>>,         \* the last distribute_commission: <<partner, outcome>>
     requested |-> <<>>,    \* the list of the last batch_distribute call
     batch |-> <<>>,        \* the addresses of its message
     next |-> 1,            \* the address the contract pays next
     results |-> <<>>]      \* the outcomes so far, one per address

\* -------------------------- PartnerRegistry (wrappers/PartnerRegistry.ts)
Deployer == "EQdeployer"
Senders == {"EQdeployer", "EQattacker", "EQnewAdmin"}

PartnerStatus(status) ==
    CASE status = "Pending" -> 0
      [] status = "Active" -> 1
      [] status = "Suspended" -> 2
      [] status = "Banned" -> 3

\* a deployment whose partner count starts at 1
partnerRegistryConfigCounted(adminAddress) ==
    [admin_address |-> adminAddress,
     partner_count |-> 1,
     partners |-> [a \in {} |-> <<>>]]

\* the registry's storage at deployment
partnerRegistryConfigToCell(adminAddress) ==
    [admin_address |-> adminAddress,
     partner_count |-> 0,
     partners |-> [a \in {} |-> <<>>]]

\* the token's storage at deployment
loyaltyTokenConfigToCell(totalSupply, adminAddress) ==
    [total_supply |-> totalSupply, admin_address |-> adminAddress]

NothingSent ==
    [to |-> "", op |-> "", via |-> "", partner |-> "", exitCode |-> 0]

InitChain ==
    /\ revenue = revenueDistributionConfigToCell
    /\ calls = NoCalls
    /\ registry = partnerRegistryConfigToCell(Deployer)
    /\ token = loyaltyTokenConfigToCell(0, Deployer)
    /\ sent = NothingSent

IdleReq ==
    [pc |-> "idle", route |-> "", user |-> "", rewardId |-> "", amount |-> 0,
     reward |-> <<>>, gotReward |-> FALSE, points |-> <<>>, gotPoints |-> FALSE,
     pointsEarned |-> 0, oldTier |-> "", newTier |-> "", result |-> "",
     emitted |-> <<>>]

\* a table without rows
EmptyTable == [id \in {} |-> id]

Init ==
    /\ partners = EmptyTable
    /\ loyaltyPoints = EmptyTable
    /\ transactions = EmptyBag
    /\ rewards = EmptyTable
    /\ claimedRewards = EmptyBag
    /\ req = [h \in Handlers |-> IdleReq]
    /\ InitChain

\* --------------------------------------------------------- the store engine
Db ==
    [partners |-> partners, loyaltyPoints |-> loyaltyPoints,
     transactions |-> transactions, rewards |-> rewards,
     claimedRewards |-> claimedRewards]

\* one statement of a transaction on the transaction's working copy
ExecStatement(db, s) ==
    CASE s.op = "transaction.create" ->
            IF s.data.partnerId \notin DOMAIN db.partners
            THEN [db |-> db, error |-> "P2003"]
            ELSE [db |-> [db EXCEPT !.transactions = @ (+) SetToBag({s.data})],
                  error |-> ""]
      [] s.op = "loyaltyPoints.update" ->
            IF s.partnerId \notin DOMAIN db.loyaltyPoints
            THEN [db |-> db, error |-> "P2025"]
            ELSE [db |-> [db EXCEPT !.loyaltyPoints[s.partnerId] =
                            [balance |-> @.balance + s.balance,
                             lifetimeEarned |-> @.lifetimeEarned + s.lifetimeEarned,
                             lifetimeRedeemed |-> @.lifetimeRedeemed + s.lifetimeRedeemed]],
                  error |-> ""]
      [] s.op = "claimedReward.create" ->
            IF \/ s.data.partnerId \notin DOMAIN db.partners
               \/ s.data.rewardId \notin DOMAIN db.rewards
            THEN [db |-> db, error |-> "P2003"]
            ELSE [db |-> [db EXCEPT !.claimedRewards = @ (+) SetToBag({s.data})],
                  error |-> ""]
      [] s.op = "reward.update" ->
            IF s.id \notin DOMAIN db.rewards
            THEN [db |-> db, error |-> "P2025"]
            ELSE [db |-> [db EXCEPT !.rewards[s.id] =
                            [@ EXCEPT !.available = @ + s.available,
                                      !.totalClaimed = @ + s.totalClaimed]],
                  error |-> ""]

RECURSIVE RunStatements(_, _, _, _)
RunStatements(db, stmts, i, failAt) ==
    IF i = failAt THEN [db |-> db, error |-> "P1017"]
    ELSE IF i > Len(stmts) THEN [db |-> db, error |-> ""]
    ELSE LET r == ExecStatement(db, stmts[i])
         IN IF r.error # "" THEN r ELSE RunStatements(r.db, stmts, i + 1, failAt)

\* a transaction that leaves the statements executed before the failure in place
PartialTransaction(db, stmts, failAt) ==
    RunStatements(db, stmts, 1, failAt)

\* prisma.$transaction([...]): all statements, or none. failAt = 0: the store
\* does not fail; failAt = i: the store fails before statement i (Len + 1: at commit).
prismaTransaction(db, stmts, failAt) ==
    LET r == RunStatements(db, stmts, 1, failAt)
    IN IF r.error = "" THEN r ELSE [db |-> db, error |-> r.error]

FailPoints(stmts) == 0..(Len(stmts) + 1)

\* errorHandler: the code a thrown error is reported with
errorHandler(err) ==
    CASE err = "P2002" -> "DUPLICATE_ENTRY"
      [] err = "P2025" -> "NOT_FOUND"
      [] err \in {"P2003", "P1017"} -> "DATABASE_ERROR"
      [] OTHER -> err

SetStore(db) ==
    /\ partners' = db.partners
    /\ loyaltyPoints' = db.loyaltyPoints
    /\ transactions' = db.transactions
    /\ rewards' = db.rewards
    /\ claimedRewards' = db.claimedRewards

\* the handler returns: its locals are gone, the response remains
Done(r, result) ==
    [IdleReq EXCEPT !.pc = "done", !.route = r.route, !.user = r.user,
                    !.rewardId = r.rewardId, !.amount = r.amount,
                    !.result = result]

\* io.to(`partner:${partnerId}`).emit(...): the events a handler emits between
\* the commit of its transaction and its response
Emits(route) ==
    CASE route = "POST /transactions" -> <<"transaction:created", "balance:updated">>
      [] route = "POST /loyalty/redeem" -> <<"balance:updated", "reward:claimed">>
      [] route = "POST /rewards/:id/claim" -> <<>>
      [] route = "awardBonusPoints" -> <<"bonus:received">>

\* the end of a handler's transaction step: on an error the catch block is
\* entered before any emit
Respond(r, error, result) ==
    [Done(r, result) EXCEPT !.emitted = IF error = "" THEN Emits(r.route) ELSE <<>>]

\* ------------------------------------------------------------- middleware
UserType(user) == IF user \in AdminIds THEN "admin" ELSE "partner"

\* authenticate: "" when the request passes, else the error code
authenticate(user) ==
    IF UserType(user) = "partner"
    THEN LET partner == findUnique(partners, user)
         IN IF partner = <<>> \/ partner[1].status = "BANNED"
            THEN "ACCOUNT_INVALID" ELSE ""
    ELSE ""

requirePartner(user) == IF UserType(user) # "partner" THEN "FORBIDDEN" ELSE ""

requireAdmin(user) == IF UserType(user) # "admin" THEN "FORBIDDEN" ELSE ""

\* the middleware chain of a route: the first error, else ""
Middleware(route, user) ==
    IF authenticate(user) # "" THEN authenticate(user)
    ELSE IF route \in {"POST /transactions", "POST /loyalty/redeem"}
         THEN requirePartner(user)
         ELSE ""

Routes == {"POST /transactions", "POST /loyalty/redeem", "POST /rewards/:id/claim"}

\* a bearer token is issued at registration or login (partners) or held by an admin
TokenHolders == DOMAIN partners \cup AdminIds

\* a request arrives and runs its middleware
Begin(h, route, user, rewardId, amount) ==
    /\ UNCHANGED chain
    /\ req[h].pc \in {"idle", "done"}
    /\ user \in TokenHolders
    /\ LET r == [IdleReq EXCEPT !.route = route, !.user = user,
                                !.rewardId = rewardId, !.amount = amount]
           e == Middleware(route, user)
       IN req' = [req EXCEPT ![h] =
                    IF e # "" THEN Done(r, e) ELSE [r EXCEPT !.pc = "read"]]
    /\ UNCHANGED store

\* ------------------------------------------- POST /loyalty/redeem (loyalty.ts)
ValidateRedeem(reward, points) ==
    IF reward = <<>> THEN "REWARD_NOT_FOUND"
    ELSE IF ~reward[1].isActive THEN "REWARD_INACTIVE"
    ELSE IF reward[1].available <= 0 THEN "REWARD_OUT_OF_STOCK"
    ELSE IF points = <<>> THEN "POINTS_NOT_FOUND"
    ELSE IF points[1].balance < reward[1].pointsRequired THEN "INSUFFICIENT_POINTS"
    ELSE ""

\* a redemption that forgets the reward update
RedeemStatementsNoStock(partnerId, rewardId, reward) ==
    << [op |-> "loyaltyPoints.update", partnerId |-> partnerId,
        balance |-> 0 - reward.pointsRequired, lifetimeEarned |-> 0,
        lifetimeRedeemed |-> reward.pointsRequired],
       [op |-> "claimedReward.create",
        data |-> [partnerId |-> partnerId, rewardId |-> rewardId,
                  pointsSpent |-> reward.pointsRequired, status |-> "PENDING"]] >>

\* a redemption whose Claim records the minimum price instead of the debit
RedeemStatementsFlatSpent(partnerId, rewardId, reward) ==
    << [op |-> "loyaltyPoints.update", partnerId |-> partnerId,
        balance |-> 0 - reward.pointsRequired, lifetimeEarned |-> 0,
        lifetimeRedeemed |-> reward.pointsRequired],
       [op |-> "claimedReward.create",
        data |-> [partnerId |-> partnerId, rewardId |-> rewardId,
                  pointsSpent |-> MinPointsRequired, status |-> "PENDING"]],
       [op |-> "reward.update", id |-> rewardId, available |-> 0 - 1,
        totalClaimed |-> 1] >>

RedeemStatements(partnerId, rewardId, reward) ==
    << [op |-> "loyaltyPoints.update", partnerId |-> partnerId,
        balance |-> 0 - reward.pointsRequired, lifetimeEarned |-> 0,
        lifetimeRedeemed |-> reward.pointsRequired],
       [op |-> "claimedReward.create",
        data |-> [partnerId |-> partnerId, rewardId |-> rewardId,
                  pointsSpent |-> reward.pointsRequired, status |-> "PENDING"]],
       [op |-> "reward.update", id |-> rewardId, available |-> 0 - 1,
        totalClaimed |-> 1] >>

\* ---------------------------------------- POST /rewards/:id/claim (rewards.ts)
\* a validation that looks at the account before the reward's stock
ValidateClaimAccountFirst(reward, points) ==
    IF reward = <<>> THEN "REWARD_NOT_FOUND"
    ELSE IF ~reward[1].isActive THEN "REWARD_INACTIVE"
    ELSE IF points = <<>> THEN "POINTS_NOT_FOUND"
    ELSE IF points[1].balance < reward[1].pointsRequired THEN "INSUFFICIENT_POINTS"
    ELSE IF reward[1].available <= 0 THEN "REWARD_OUT_OF_STOCK"
    ELSE ""

ValidateClaim(reward, points) ==
    IF reward = <<>> THEN "REWARD_NOT_FOUND"
    ELSE IF ~reward[1].isActive THEN "REWARD_INACTIVE"
    ELSE IF reward[1].available <= 0 THEN "REWARD_OUT_OF_STOCK"
    ELSE IF points = <<>> THEN "POINTS_NOT_FOUND"
    ELSE IF points[1].balance < reward[1].pointsRequired THEN "INSUFFICIENT_POINTS"
    ELSE ""

\* a claim that leaves the reward's stock as it was
ClaimStatementsKeepStock(partnerId, rewardId, reward) ==
    << [op |-> "loyaltyPoints.update", partnerId |-> partnerId,
        balance |-> 0 - reward.pointsRequired, lifetimeEarned |-> 0,
        lifetimeRedeemed |-> reward.pointsRequired],
       [op |-> "claimedReward.create",
        data |-> [partnerId |-> partnerId, rewardId |-> rewardId,
                  pointsSpent |-> reward.pointsRequired, status |-> "PENDING"]],
       [op |-> "reward.update", id |-> rewardId, available |-> 0,
        totalClaimed |-> 1] >>

\* a claim that debits the balance without counting it as redeemed
ClaimStatementsNoLifetime(partnerId, rewardId, reward) ==
    << [op |-> "loyaltyPoints.update", partnerId |-> partnerId,
        balance |-> 0 - reward.pointsRequired, lifetimeEarned |-> 0,
        lifetimeRedeemed |-> 0],
       [op |-> "claimedReward.create",
        data |-> [partnerId |-> partnerId, rewardId |-> rewardId,
                  pointsSpent |-> reward.pointsRequired, status |-> "PENDING"]],
       [op |-> "reward.update", id |-> rewardId, available |-> 0 - 1,
        totalClaimed |-> 1] >>

ClaimStatements(partnerId, rewardId, reward) ==
    << [op |-> "loyaltyPoints.update", partnerId |-> partnerId,
        balance |-> 0 - reward.pointsRequired, lifetimeEarned |-> 0,
        lifetimeRedeemed |-> reward.pointsRequired],
       [op |-> "claimedReward.create",
        data |-> [partnerId |-> partnerId, rewardId |-> rewardId,
                  pointsSpent |-> reward.pointsRequired, status |-> "PENDING"]],
       [op |-> "reward.update", id |-> rewardId, available |-> 0 - 1,
        totalClaimed |-> 1] >>

\* of the rows it reads a redemption handler uses these fields only
RewardView(reward) ==
    IF reward = <<>> THEN <<>>
    ELSE <<[pointsRequired |-> reward[1].pointsRequired,
            available |-> reward[1].available,
            isActive |-> reward[1].isActive]>>

PointsView(points) ==
    IF points = <<>> THEN <<>> ELSE <<[balance |-> points[1].balance]>>

IsRedemption(r) == r.route \in {"POST /loyalty/redeem", "POST /rewards/:id/claim"}

Validate(r) ==
    IF r.route = "POST /loyalty/redeem"
    THEN ValidateRedeem(r.reward, r.points)
    ELSE ValidateClaim(r.reward, r.points)

Statements(r) ==
    IF r.route = "POST /loyalty/redeem"
    THEN RedeemStatements(r.user, r.rewardId, r.reward[1])
    ELSE ClaimStatements(r.user, r.rewardId, r.reward[1])

\* the code after Promise.all([...]) up to the transaction: runs once both
\* reads have returned
AfterReads(r) ==
    IF ~(r.gotReward /\ r.gotPoints) THEN r
    ELSE IF Validate(r) # "" THEN Done(r, Validate(r))
    ELSE [r EXCEPT !.pc = "tx", !.points = <<>>, !.gotReward = FALSE,
                   !.gotPoints = FALSE]

\* prisma.reward.findUnique({ where: { id } })
ReadReward(h) ==
    /\ UNCHANGED chain
    /\ req[h].pc = "read"
    /\ IsRedemption(req[h])
    /\ ~req[h].gotReward
    /\ req' = [req EXCEPT ![h] =
                 AfterReads([@ EXCEPT !.reward = RewardView(findUnique(rewards, req[h].rewardId)),
                                      !.gotReward = TRUE])]
    /\ UNCHANGED store

\* prisma.loyaltyPoints.findUnique({ where: { partnerId } })
ReadPoints(h) ==
    /\ UNCHANGED chain
    /\ req[h].pc = "read"
    /\ IsRedemption(req[h])
    /\ ~req[h].gotPoints
    /\ req' = [req EXCEPT ![h] =
                 AfterReads([@ EXCEPT !.points = PointsView(findUnique(loyaltyPoints, req[h].user)),
                                      !.gotPoints = TRUE])]
    /\ UNCHANGED store

\* the transaction of a redemption and the response
RedeemTransaction(h, failAt) ==
    /\ UNCHANGED chain
    /\ req[h].pc = "tx"
    /\ IsRedemption(req[h])
    /\ failAt \in FailPoints(Statements(req[h]))
    /\ LET t == prismaTransaction(Db, Statements(req[h]), failAt)
       IN /\ SetStore(t.db)
          /\ req' = [req EXCEPT ![h] =
                       Respond(@, t.error,
                               IF t.error = "" THEN "OK" ELSE errorHandler(t.error))]

\* ------------------------------------------ POST /transactions (transactions.ts)
\* an earning that credits the balance but not lifetimeEarned
EarnStatementsBalanceOnly(partnerId, amount, pointsEarned, type) ==
    << [op |-> "transaction.create",
        data |-> [partnerId |-> partnerId, amount |-> StoredAmount(amount),
                  pointsEarned |-> pointsEarned, type |-> type]],
       [op |-> "loyaltyPoints.update", partnerId |-> partnerId,
        balance |-> pointsEarned, lifetimeEarned |-> 0,
        lifetimeRedeemed |-> 0] >>

EarnStatements(partnerId, amount, pointsEarned, type) ==
    << [op |-> "transaction.create",
        data |-> [partnerId |-> partnerId, amount |-> StoredAmount(amount),
                  pointsEarned |-> pointsEarned, type |-> type]],
       [op |-> "loyaltyPoints.update", partnerId |-> partnerId,
        balance |-> pointsEarned, lifetimeEarned |-> pointsEarned,
        lifetimeRedeemed |-> 0] >>

\* prisma.partner.findUnique(...) and the code up to the transaction
ReadPartner(h) ==
    /\ UNCHANGED chain
    /\ req[h].pc = "read"
    /\ req[h].route = "POST /transactions"
    /\ LET partner == findUnique(partners, req[h].user)
       IN req' = [req EXCEPT ![h] =
                    IF partner = <<>> THEN Done(@, "NOT_FOUND")
                    ELSE IF partner[1].status # "ACTIVE"
                         THEN Done(@, "ACCOUNT_NOT_ACTIVE")
                    ELSE [@ EXCEPT !.pc = "tx",
                                   !.pointsEarned =
                                       calculatePoints(req[h].amount,
                                                       TIER_MULTIPLIERS(partner[1].tier))]]
    /\ UNCHANGED store

\* the cap on recorded earnings
WithinEarned(partnerId, points) ==
    BagCardinality(transactions) < MaxEarnings

\* the transaction of an earning and the response
EarnTransaction(h, failAt) ==
    /\ UNCHANGED chain
    /\ req[h].pc = "tx"
    /\ req[h].route = "POST /transactions"
    /\ WithinEarned(req[h].user, req[h].pointsEarned)
    /\ LET stmts == EarnStatements(req[h].user, req[h].amount,
                                   req[h].pointsEarned, "PURCHASE")
       IN /\ failAt \in FailPoints(stmts)
          /\ LET t == prismaTransaction(Db, stmts, failAt)
             IN /\ SetStore(t.db)
                /\ req' = [req EXCEPT ![h] =
                             Respond(@, t.error,
                                     IF t.error = "" THEN "OK"
                                     ELSE errorHandler(t.error))]

\* ------------------------------------------------ services/loyalty.ts
BonusStatements(partnerId, points) ==
    << [op |-> "transaction.create",
        data |-> [partnerId |-> partnerId, amount |-> 0,
                  pointsEarned |-> points, type |-> "BONUS"]],
       [op |-> "loyaltyPoints.update", partnerId |-> partnerId,
        balance |-> points, lifetimeEarned |-> points, lifetimeRedeemed |-> 0] >>

\* awardBonusPoints(partnerId, points, reason): one transaction; an error is rethrown
awardBonusPoints(h, partnerId, points, failAt) ==
    /\ UNCHANGED chain
    /\ req[h].pc \in {"idle", "done"}
    /\ WithinEarned(partnerId, points)
    /\ LET stmts == BonusStatements(partnerId, points)
       IN /\ failAt \in FailPoints(stmts)
          /\ LET t == prismaTransaction(Db, stmts, failAt)
             IN /\ SetStore(t.db)
                /\ req' = [req EXCEPT ![h] =
                             Respond([IdleReq EXCEPT !.route = "awardBonusPoints",
                                                     !.user = partnerId],
                                     t.error,
                                     IF t.error = "" THEN "OK" ELSE t.error)]

\* checkTierUpgrade's thresholds of lifetimeEarned
SILVER_THRESHOLD == 10000
GOLD_THRESHOLD == 50000

\* a tier decision that never skips Silver
NewTierThroughSilver(lifetimeEarned, tier) ==
    IF lifetimeEarned >= SILVER_THRESHOLD /\ tier = "BRONZE" THEN "SILVER"
    ELSE IF lifetimeEarned >= GOLD_THRESHOLD /\ tier # "GOLD" THEN "GOLD"
    ELSE ""

\* a tier decision that recomputes the tier from the thresholds alone
NewTierFromEarned(lifetimeEarned, tier) ==
    LET t == IF lifetimeEarned >= GOLD_THRESHOLD THEN "GOLD"
             ELSE IF lifetimeEarned >= SILVER_THRESHOLD THEN "SILVER"
             ELSE "BRONZE"
    IN IF t = tier THEN "" ELSE t

\* the tier checkTierUpgrade decides on; "" is null (no upgrade)
NewTier(lifetimeEarned, tier) ==
    IF lifetimeEarned >= GOLD_THRESHOLD /\ tier # "GOLD" THEN "GOLD"
    ELSE IF lifetimeEarned >= SILVER_THRESHOLD /\ tier = "BRONZE" THEN "SILVER"
    ELSE ""

\* checkTierUpgrade(partnerId), up to its second store call:
\* prisma.loyaltyPoints.findUnique({ include: { partner: true } }) and the decision
CheckTierRead(h, partnerId) ==
    /\ UNCHANGED chain
    /\ req[h].pc \in {"idle", "done"}
    /\ LET r == [IdleReq EXCEPT !.route = "checkTierUpgrade", !.user = partnerId]
           lp == findUnique(loyaltyPoints, partnerId)
       IN req' = [req EXCEPT ![h] =
                    IF lp = <<>> THEN Done(r, "false")
                    ELSE LET newTier == NewTier(lp[1].lifetimeEarned,
                                                partners[partnerId].tier)
                         IN IF newTier = "" THEN Done(r, "false")
                            ELSE [r EXCEPT !.pc = "tierUpdate",
                                           !.oldTier = partners[partnerId].tier,
                                           !.newTier = newTier]]
    /\ UNCHANGED store

\* prisma.partner.update({ data: { tier: newTier } }), then the emit of
\* 'tier:upgraded' with { oldTier, newTier } and the return; an update that
\* throws (no such partner, or the storage fails) goes to the catch block
CheckTierUpdate(h, fails) ==
    /\ UNCHANGED chain
    /\ req[h].pc = "tierUpdate"
    /\ IF fails
       THEN /\ UNCHANGED partners
            /\ req' = [req EXCEPT ![h] = Done(@, "DATABASE_ERROR")]
       ELSE IF req[h].user \in DOMAIN partners
       THEN /\ partners' = [partners EXCEPT ![req[h].user].tier = req[h].newTier]
            /\ req' = [req EXCEPT ![h] =
                         [Done(@, "true") EXCEPT !.oldTier = req[h].oldTier,
                                                 !.newTier = req[h].newTier,
                                                 !.emitted = <<"tier:upgraded">>]]
       ELSE /\ UNCHANGED partners
            /\ req' = [req EXCEPT ![h] = Done(@, "P2025")]
    /\ UNCHANGED <<loyaltyPoints, transactions, rewards, claimedRewards>>

\* ------------------------------------------------- POST /auth/register
\* a registration that creates the partner without the nested loyaltyPoints row
RegisterWithoutAccount(walletAddress) ==
    /\ UNCHANGED chain
    /\ IF walletAddress \in DOMAIN partners
       THEN UNCHANGED <<partners, loyaltyPoints>>
       ELSE /\ partners' = partners @@
                  (walletAddress :> [tier |-> "BRONZE", status |-> "PENDING"])
            /\ UNCHANGED loyaltyPoints
    /\ UNCHANGED <<transactions, rewards, claimedRewards, req>>

\* prisma.partner.create with the nested loyaltyPoints create
Register(walletAddress) ==
    /\ UNCHANGED chain
    /\ IF walletAddress \in DOMAIN partners
       THEN UNCHANGED <<partners, loyaltyPoints>>
       ELSE /\ partners' = partners @@
                  (walletAddress :> [tier |-> "BRONZE", status |-> "PENDING"])
            /\ loyaltyPoints' = loyaltyPoints @@
                  (walletAddress :> [balance |-> 0, lifetimeEarned |-> 0,
                                     lifetimeRedeemed |-> 0])
    /\ UNCHANGED <<transactions, rewards, claimedRewards, req>>

\* an optional field of a request body: <<>> when absent
Opt(field, old) == IF field = <<>> THEN old ELSE field[1]

\* --------------------------------------------------- PATCH /partners/:id
\* prisma.partner.update({ where: { id }, data }): the fields present in data
SetFields(row, data) ==
    [f \in DOMAIN row |-> IF f \in DOMAIN data THEN Opt(data[f], row[f]) ELSE row[f]]

\* the handler without `delete data.tier; delete data.status`
UpdatePartnerKeepsBody(user, id, data) ==
    /\ UNCHANGED chain
    /\ user \in TokenHolders
    /\ IF \/ authenticate(user) # ""
          \/ (UserType(user) = "partner" /\ user # id)
          \/ id \notin DOMAIN partners
       THEN UNCHANGED partners
       ELSE partners' = [partners EXCEPT ![id] = SetFields(@, data)]
    /\ UNCHANGED <<loyaltyPoints, transactions, rewards, claimedRewards, req>>

UpdatePartner(user, id, data) ==
    /\ UNCHANGED chain
    /\ user \in TokenHolders
    /\ IF \/ authenticate(user) # ""
          \/ (UserType(user) = "partner" /\ user # id)
          \/ id \notin DOMAIN partners
       THEN UNCHANGED partners
       ELSE LET d == IF UserType(user) = "partner"
                     THEN [data EXCEPT !.tier = <<>>, !.status = <<>>]
                     ELSE data
            IN partners' = [partners EXCEPT ![id] = SetFields(@, d)]
    /\ UNCHANGED <<loyaltyPoints, transactions, rewards, claimedRewards, req>>

\* ------------------------------------------------------- POST /rewards
CreateReward(user, id, data) ==
    /\ UNCHANGED chain
    /\ user \in TokenHolders
    /\ id \notin DOMAIN rewards
    /\ data.pointsRequired >= MinPointsRequired
    /\ data.available >= 0
    /\ data.maxClaims >= 0
    /\ IF authenticate(user) # "" \/ requireAdmin(user) # ""
       THEN UNCHANGED rewards
       ELSE rewards' = rewards @@
              (id :> [pointsRequired |-> data.pointsRequired,
                      available |-> data.available,
                      maxClaims |-> data.maxClaims,
                      totalClaimed |-> 0,
                      isActive |-> TRUE])
    /\ UNCHANGED <<partners, loyaltyPoints, transactions, claimedRewards, req>>

\* ---------------------------------------------------- PATCH /rewards/:id
UpdateReward(user, id, data) ==
    /\ UNCHANGED chain
    /\ user \in TokenHolders
    /\ IF \/ authenticate(user) # "" \/ requireAdmin(user) # ""
          \/ id \notin DOMAIN rewards
       THEN UNCHANGED rewards
       ELSE rewards' = [rewards EXCEPT ![id] =
                          [pointsRequired |-> Opt(data.pointsRequired, @.pointsRequired),
                           available |-> Opt(data.available, @.available),
                           maxClaims |-> Opt(data.maxClaims, @.maxClaims),
                           totalClaimed |-> @.totalClaimed,
                           isActive |-> Opt(data.isActive, @.isActive)]]
    /\ UNCHANGED <<partners, loyaltyPoints, transactions, claimedRewards, req>>

\* ------------------------------------------ RevenueDistribution: messages
\* PartnerTier of the PartnerRegistry wrapper
PartnerTier(tier) ==
    CASE tier = "Bronze" -> 1 [] tier = "Silver" -> 2 [] tier = "Gold" -> 3

\* the message bodies the wrapper builds (queryId 0); storeCoins and storeUint
\* throw on a value outside their range
sendRecordTransaction(partnerAddress, amount, tier) ==
    [op |-> 32, partnerAddress |-> partnerAddress, amount |-> amount, tier |-> tier]

sendDistributeCommission(partnerAddress) ==
    [op |-> 33, partnerAddress |-> partnerAddress]

\* a batch body that leaves out the last address
sendBatchDistributeShort(partnerAddresses) ==
    [op |-> 34, count |-> Len(partnerAddresses) - 1,
     addresses |-> SubSeq(partnerAddresses, 1, Len(partnerAddresses) - 1)]

sendBatchDistribute(partnerAddresses) ==
    [op |-> 34, count |-> Len(partnerAddresses), addresses |-> partnerAddresses]

\* ------------------------------ RevenueDistribution: the contract's handlers
TierOfCode(code) ==
    CASE code = 1 -> "Bronze" [] code = 2 -> "Silver" [] code = 3 -> "Gold"

\* commission and platform fee of a transaction, in truncating integer division
calculateCommission(amount, tier) ==
    [commission |-> (amount * CommissionRates(TierOfCode(tier))) \div 10000,
     platformFee |-> (amount * CommissionRates("Platform")) \div 10000]

PendingPayout(rev, partner) ==
    IF partner \in DOMAIN rev.pending_payouts THEN rev.pending_payouts[partner] ELSE 0

SetPending(rev, partner, amount) ==
    [a \in DOMAIN rev.pending_payouts \cup {partner} |->
        IF a = partner THEN amount ELSE rev.pending_payouts[a]]

\* record_transaction: accrue the commission and the platform fee
recordTransaction(rev, body) ==
    LET c == calculateCommission(body.amount, body.tier)
    IN [rev EXCEPT
          !.pending_payouts =
              SetPending(rev, body.partnerAddress,
                         PendingPayout(rev, body.partnerAddress) + c.commission),
          !.platform_balance = @ + c.platformFee]

\* distribute_commission for one partner: the new storage and the outcome
distributeCommission(rev, partner, fails) ==
    LET x == PendingPayout(rev, partner)
    IN IF fails THEN [rev |-> rev, result |-> "Internal"]
       ELSE IF x = 0 THEN [rev |-> rev, result |-> "NoPendingPayout"]
       ELSE [rev |-> [rev EXCEPT
                        !.total_distributed = @ + x,
                        !.pending_payouts = SetPending(rev, partner, 0),
                        !.payout_count = @ + 1,
                        !.payout_history =
                            Append(@, [partner |-> partner, amount |-> x])],
             result |-> "OK"]

\* ------------------------------------------- RevenueDistribution: actions
RecordTransaction(partnerAddress, amount, tier) ==
    /\ Len(calls.recorded) < MaxRecorded
    /\ amount >= 0
    /\ PartnerTier(tier) \in 0..255
    /\ LET body == sendRecordTransaction(partnerAddress, amount, PartnerTier(tier))
       IN /\ revenue' = recordTransaction(revenue, body)
          /\ calls' = [calls EXCEPT
                         !.recorded = Append(@, [partner |-> partnerAddress,
                                                 amount |-> amount, tier |-> tier])]
    /\ UNCHANGED <<store, req, registry, token, sent>>

DistributeCommission(partnerAddress, fails) ==
    /\ LET body == sendDistributeCommission(partnerAddress)
           d == distributeCommission(revenue, body.partnerAddress, fails)
       IN /\ revenue' = d.rev
          /\ calls' = [calls EXCEPT !.last = <<partnerAddress, d.result>>]
    /\ UNCHANGED <<store, req, registry, token, sent>>

\* batch_distribute arrives: the listed partners are then paid one by one
BatchDistribute(partnerAddresses) ==
    /\ calls.next > Len(calls.batch)
    /\ Len(partnerAddresses) \in 0..255
    /\ LET body == sendBatchDistribute(partnerAddresses)
       IN calls' = [calls EXCEPT !.requested = partnerAddresses,
                                 !.batch = body.addresses, !.next = 1,
                                 !.results = <<>>]
    /\ UNCHANGED <<revenue, store, req, registry, token, sent>>

\* the unit of one listed partner
BatchStep(fails) ==
    /\ calls.next <= Len(calls.batch)
    /\ LET d == distributeCommission(revenue, calls.batch[calls.next], fails)
       IN /\ revenue' = d.rev
          /\ calls' = [calls EXCEPT !.next = @ + 1,
                                    !.results = Append(@, d.result)]
    /\ UNCHANGED <<store, req, registry, token, sent>>

ChainPartners == {"EQp1", "EQp2"}
RecordAmounts == {100000, 3333}
ContractTiers == {"Bronze", "Silver", "Gold"}
BatchLists ==
    {<<a>> : a \in ChainPartners} \cup {<<a, b>> : a, b \in ChainPartners}

NextR ==
    \/ \E a \in ChainPartners, amount \in RecordAmounts, tier \in ContractTiers :
          RecordTransaction(a, amount, tier)
    \/ \E a \in ChainPartners, fails \in BOOLEAN : DistributeCommission(a, fails)
    \/ \E list \in BatchLists : BatchDistribute(list)
    \/ \E fails \in BOOLEAN : BatchStep(fails)

SpecR == Init /\ [][NextR]_vars

\* ---------------------------------------------- PartnerRegistry: messages
\* every message reaches the contract as if the deployer had sent it
sendRegisterPartnerAsDeployer(via, partnerAddress, tier, kycHash) ==
    [sender |-> Deployer, op |-> 1, partnerAddress |-> partnerAddress,
     tier |-> tier, kycHash |-> kycHash]

sendRegisterPartner(via, partnerAddress, tier, kycHash) ==
    [sender |-> via, op |-> 1, partnerAddress |-> partnerAddress,
     tier |-> tier, kycHash |-> kycHash]

sendUpdatePartnerTier(via, partnerAddress, newTier) ==
    [sender |-> via, op |-> 2, partnerAddress |-> partnerAddress,
     newTier |-> newTier]

sendUpdatePartnerStatus(via, partnerAddress, newStatus) ==
    [sender |-> via, op |-> 3, partnerAddress |-> partnerAddress,
     newStatus |-> newStatus]

sendChangeAdmin(via, newAdmin) ==
    [sender |-> via, op |-> 1694626644, newAdmin |-> newAdmin]

\* ------------------------------------ PartnerRegistry: the contract's handlers
NotAdmin == 73
InvalidTier == 100
PartnerExists == 101

\* register_partner: the new storage and the exit code; a failed transaction
\* leaves the storage as it was. tierFirst: which of the two input checks the
\* contract makes first when both fail.
registerPartner(reg, msg, tierFirst) ==
    LET badTier == msg.tier \notin {1, 2, 3}
        exists == msg.partnerAddress \in DOMAIN reg.partners
    IN IF msg.sender # reg.admin_address THEN [reg |-> reg, exitCode |-> NotAdmin]
       ELSE IF badTier /\ (tierFirst \/ ~exists)
            THEN [reg |-> reg, exitCode |-> InvalidTier]
       ELSE IF exists THEN [reg |-> reg, exitCode |-> PartnerExists]
       ELSE [reg |-> [reg EXCEPT
                        !.partner_count = @ + 1,
                        !.partners =
                            [a \in DOMAIN @ \cup {msg.partnerAddress} |->
                                IF a = msg.partnerAddress
                                THEN [tier |-> msg.tier,
                                      status |-> PartnerStatus("Active"),
                                      kycHash |-> msg.kycHash,
                                      totalEarned |-> 0]
                                ELSE @[a]]],
             exitCode |-> 0]

\* update_partner_tier / update_partner_status of a registered partner
updatePartner(reg, msg) ==
    IF msg.sender # reg.admin_address THEN [reg |-> reg, exitCode |-> NotAdmin]
    ELSE [reg |-> [reg EXCEPT
                     !.partners[msg.partnerAddress] =
                         IF msg.op = 2 THEN [@ EXCEPT !.tier = msg.newTier]
                         ELSE [@ EXCEPT !.status = msg.newStatus]],
          exitCode |-> 0]

\* change_admin, of the registry and of the token alike
changeAdmin(storage, msg) ==
    IF msg.sender # storage.admin_address
    THEN [storage |-> storage, exitCode |-> NotAdmin]
    ELSE [storage |-> [storage EXCEPT !.admin_address = msg.newAdmin],
          exitCode |-> 0]

\* ------------------------------------------------ PartnerRegistry: actions
RegisterPartner(via, partnerAddress, tier, tierFirst) ==
    /\ LET msg == sendRegisterPartner(via, partnerAddress, tier, 0)
           r == registerPartner(registry, msg, tierFirst)
       IN /\ registry' = r.reg
          /\ sent' = [to |-> "PartnerRegistry", op |-> "registerPartner",
                      via |-> via, partner |-> partnerAddress,
                      exitCode |-> r.exitCode]
    /\ UNCHANGED <<store, req, revenue, calls, token>>

UpdatePartnerTier(via, partnerAddress, newTier) ==
    /\ partnerAddress \in DOMAIN registry.partners
    /\ LET r == updatePartner(registry,
                              sendUpdatePartnerTier(via, partnerAddress, newTier))
       IN /\ registry' = r.reg
          /\ sent' = [to |-> "PartnerRegistry", op |-> "updatePartnerTier",
                      via |-> via, partner |-> partnerAddress,
                      exitCode |-> r.exitCode]
    /\ UNCHANGED <<store, req, revenue, calls, token>>

UpdatePartnerStatus(via, partnerAddress, newStatus) ==
    /\ partnerAddress \in DOMAIN registry.partners
    /\ LET r == updatePartner(registry,
                              sendUpdatePartnerStatus(via, partnerAddress, newStatus))
       IN /\ registry' = r.reg
          /\ sent' = [to |-> "PartnerRegistry", op |-> "updatePartnerStatus",
                      via |-> via, partner |-> partnerAddress,
                      exitCode |-> r.exitCode]
    /\ UNCHANGED <<store, req, revenue, calls, token>>

ChangeAdmin(via, newAdmin) ==
    /\ LET r == changeAdmin(registry, sendChangeAdmin(via, newAdmin))
       IN /\ registry' = r.storage
          /\ sent' = [to |-> "PartnerRegistry", op |-> "changeAdmin",
                      via |-> via, partner |-> "", exitCode |-> r.exitCode]
    /\ UNCHANGED <<store, req, revenue, calls, token>>

\* ------------------------------------------------------------ LoyaltyToken
MaxSupply == 2000

sendMint(via, toAddress, amount) ==
    [sender |-> via, op |-> 21, toAddress |-> toAddress, amount |-> amount]

sendTokenChangeAdmin(via, newAdmin) ==
    [sender |-> via, op |-> 3, newAdmin |-> newAdmin]

\* mint: admin only; adds the amount to the total supply
mint(tok, msg) ==
    IF msg.sender # tok.admin_address THEN [storage |-> tok, exitCode |-> NotAdmin]
    ELSE [storage |-> [tok EXCEPT !.total_supply = @ + msg.amount],
          exitCode |-> 0]

Mint(via, toAddress, amount) ==
    /\ token.total_supply + amount <= MaxSupply
    /\ LET r == mint(token, sendMint(via, toAddress, amount))
       IN /\ token' = r.storage
          /\ sent' = [to |-> "LoyaltyToken", op |-> "mint", via |-> via,
                      partner |-> toAddress, exitCode |-> r.exitCode]
    /\ UNCHANGED <<store, req, revenue, calls, registry>>

TokenChangeAdmin(via, newAdmin) ==
    /\ LET r == changeAdmin(token, sendTokenChangeAdmin(via, newAdmin))
       IN /\ token' = r.storage
          /\ sent' = [to |-> "LoyaltyToken", op |-> "changeAdmin", via |-> via,
                      partner |-> "", exitCode |-> r.exitCode]
    /\ UNCHANGED <<store, req, revenue, calls, registry>>

RegistryPartners == {"EQp1", "EQp2"}
RegistryTiers == {1, 2, 3, 99}
MintAmounts == {1000}
RegistryStatuses == {PartnerStatus("Active"), PartnerStatus("Suspended")}

NextP ==
    \/ \E via \in Senders, a \in RegistryPartners, tier \in RegistryTiers,
          tierFirst \in BOOLEAN : RegisterPartner(via, a, tier, tierFirst)
    \/ \E via \in Senders, a \in RegistryPartners, tier \in {1, 2, 3} :
          UpdatePartnerTier(via, a, tier)
    \/ \E via \in Senders, a \in RegistryPartners, status \in RegistryStatuses :
          UpdatePartnerStatus(via, a, status)
    \/ \E via \in Senders, newAdmin \in Senders : ChangeAdmin(via, newAdmin)
    \/ \E via \in Senders, a \in RegistryPartners, amount \in MintAmounts :
          Mint(via, a, amount)
    \/ \E via \in Senders, newAdmin \in Senders : TokenChangeAdmin(via, newAdmin)

SpecP == Init /\ [][NextP]_vars

\* ----------------------------------------------------------- request inputs
Users == PartnerIds \cup AdminIds

PartnerPatches ==
    {[tier |-> <<>>, status |-> <<st>>] : st \in {"ACTIVE"}}

RewardCreates ==
    [pointsRequired : PointsRequiredChoices, available : AvailableChoices,
     maxClaims : {0}]

NoRewardPatch ==
    [pointsRequired |-> <<>>, available |-> <<>>, maxClaims |-> <<>>, isActive |-> <<>>]

RewardPatches ==
    {[NoRewardPatch EXCEPT !.available = <<v>>] : v \in AvailableChoices}
    \cup {[NoRewardPatch EXCEPT !.isActive = <<v>>] : v \in BOOLEAN}

Next ==
    \/ \E h \in Handlers, route \in Routes, user \in PartnerIds, id \in RewardIds,
          amount \in AmountChoices :
          Begin(h, route, user,
                IF route = "POST /transactions" THEN "" ELSE id,
                IF route = "POST /transactions" THEN amount ELSE 0)
    \/ \E h \in Handlers : ReadReward(h)
    \/ \E h \in Handlers : ReadPoints(h)
    \/ \E h \in Handlers, failAt \in 0..4 : RedeemTransaction(h, failAt)
    \/ \E h \in Handlers : ReadPartner(h)
    \/ \E h \in Handlers, failAt \in 0..3 : EarnTransaction(h, failAt)
    \/ \E h \in Handlers, p \in PartnerIds, points \in BonusChoices, failAt \in 0..3 :
          awardBonusPoints(h, p, points, failAt)
    \/ \E w \in PartnerIds : Register(w)
    \/ \E user \in AdminIds, id \in PartnerIds, data \in PartnerPatches :
          UpdatePartner(user, id, data)
    \/ \E user \in AdminIds, id \in RewardIds, data \in RewardCreates :
          CreateReward(user, id, data)
    \/ \E user \in AdminIds, id \in RewardIds, data \in RewardPatches :
          UpdateReward(user, id, data)

Spec == Init /\ [][Next]_vars

\* ------------------------------------------- sequential use, all admin inputs
SeqMaxAvailable == 2
SeqMaxClaims == 1

SeqRewardCreates ==
    [pointsRequired : {100}, available : 1..SeqMaxAvailable,
     maxClaims : 0..SeqMaxClaims]

SeqRewardPatches ==
    {[NoRewardPatch EXCEPT !.available = <<v>>] : v \in 0..SeqMaxAvailable}
    \cup {[NoRewardPatch EXCEPT !.maxClaims = <<v>>] : v \in 0..SeqMaxClaims}
    \cup {[NoRewardPatch EXCEPT !.isActive = <<v>>] : v \in BOOLEAN}

SeqPartnerPatches ==
    {[tier |-> <<>>, status |-> <<st>>] : st \in {"ACTIVE", "SUSPENDED", "BANNED"}}
    \cup {[tier |-> <<t>>, status |-> <<>>] : t \in {"SILVER", "GOLD"}}

\* one request at a time, and a store that never fails
NextSeq ==
    \/ \E route \in Routes, user \in Users, id \in RewardIds, amount \in AmountChoices :
          Begin(1, route, user,
                IF route = "POST /transactions" THEN "" ELSE id,
                IF route = "POST /transactions" THEN amount ELSE 0)
    \/ ReadReward(1)
    \/ ReadPoints(1)
    \/ RedeemTransaction(1, 0)
    \/ ReadPartner(1)
    \/ EarnTransaction(1, 0)
    \/ \E p \in PartnerIds, points \in BonusChoices : awardBonusPoints(1, p, points, 0)
    \/ \E w \in PartnerIds : Register(w)
    \/ \E user \in Users, id \in PartnerIds, data \in SeqPartnerPatches :
          UpdatePartner(user, id, data)
    \/ \E user \in Users, id \in RewardIds, data \in SeqRewardCreates :
          CreateReward(user, id, data)
    \/ \E user \in Users, id \in RewardIds, data \in SeqRewardPatches :
          UpdateReward(user, id, data)

SpecSeq == Init /\ [][NextSeq]_vars

\* --------------------------- K concurrent redemptions of one partner's balance
RedemptionRoutes == {"POST /loyalty/redeem", "POST /rewards/:id/claim"}

\* partner p1 holds B points, earned as one bonus; reward r1 costs B and is in
\* stock for every request
InitK ==
    \E B \in PointsRequiredChoices :
        /\ partners = ("p1" :> [tier |-> "BRONZE", status |-> "ACTIVE"])
        /\ loyaltyPoints = ("p1" :> [balance |-> B, lifetimeEarned |-> B,
                                     lifetimeRedeemed |-> 0])
        /\ transactions = SetToBag({[partnerId |-> "p1", amount |-> 0,
                                     pointsEarned |-> B, type |-> "BONUS"]})
        /\ rewards = ("r1" :> [pointsRequired |-> B, available |-> NumHandlers,
                               maxClaims |-> 0, totalClaimed |-> 0,
                               isActive |-> TRUE])
        /\ claimedRewards = EmptyBag
        /\ req = [h \in Handlers |-> IdleReq]
        /\ InitChain

\* each handler serves one request
BeginOnce(h, route, user, rewardId) ==
    /\ req[h].pc = "idle"
    /\ Begin(h, route, user, rewardId, 0)

NextK ==
    \/ \E h \in Handlers, route \in RedemptionRoutes : BeginOnce(h, route, "p1", "r1")
    \/ \E h \in Handlers : ReadReward(h)
    \/ \E h \in Handlers : ReadPoints(h)
    \/ \E h \in Handlers : RedeemTransaction(h, 0)

SpecK == InitK /\ [][NextK]_vars

\* ------------------------ two partners claim the last unit of a reward at once
RacePartners == <<"p1", "p2">>

\* both partners can afford reward r1, of which one unit is left
InitD ==
    \E B \in {100, 200} :
        /\ partners = [p \in {"p1", "p2"} |-> [tier |-> "BRONZE", status |-> "ACTIVE"]]
        /\ loyaltyPoints = [p \in {"p1", "p2"} |->
                              [balance |-> B, lifetimeEarned |-> B,
                               lifetimeRedeemed |-> 0]]
        /\ transactions = SetToBag({[partnerId |-> p, amount |-> 0,
                                     pointsEarned |-> B, type |-> "BONUS"] :
                                    p \in {"p1", "p2"}})
        /\ rewards = ("r1" :> [pointsRequired |-> 100, available |-> 1,
                               maxClaims |-> 0, totalClaimed |-> 0,
                               isActive |-> TRUE])
        /\ claimedRewards = EmptyBag
        /\ req = [h \in Handlers |-> IdleReq]
        /\ InitChain

NextD ==
    \/ \E h \in 1..2, route \in RedemptionRoutes :
          BeginOnce(h, route, RacePartners[h], "r1")
    \/ \E h \in Handlers : ReadReward(h)
    \/ \E h \in Handlers : ReadPoints(h)
    \/ \E h \in Handlers : RedeemTransaction(h, 0)

SpecD == InitD /\ [][NextD]_vars

\* ------------------------------- a credit of N points, then a redemption of N
RoundTripPoints == {100, 150}
\* the account before the round trip: <<lifetimeEarned, lifetimeRedeemed>>
StartAccounts == {<<0, 0>>, <<50, 0>>, <<100, 0>>, <<100, 100>>}

\* partner p1 earned its points before as one PROMOTION and spent them on one
\* claim since FULFILLED; reward r1 costs N
InitRT ==
    \E N \in RoundTripPoints, a \in StartAccounts :
        /\ partners = ("p1" :> [tier |-> "BRONZE", status |-> "ACTIVE"])
        /\ loyaltyPoints = ("p1" :> [balance |-> a[1] - a[2], lifetimeEarned |-> a[1],
                                     lifetimeRedeemed |-> a[2]])
        /\ transactions =
              IF a[1] = 0 THEN EmptyBag
              ELSE SetToBag({[partnerId |-> "p1", amount |-> 0,
                              pointsEarned |-> a[1], type |-> "PROMOTION"]})
        /\ rewards = ("r1" :> [pointsRequired |-> N, available |-> 1,
                               maxClaims |-> 0,
                               totalClaimed |-> IF a[2] = 0 THEN 0 ELSE 1,
                               isActive |-> TRUE])
        /\ claimedRewards =
              IF a[2] = 0 THEN EmptyBag
              ELSE SetToBag({[partnerId |-> "p1", rewardId |-> "r1",
                              pointsSpent |-> a[2], status |-> "FULFILLED"]})
        /\ req = [h \in Handlers |-> IdleReq]
        /\ InitChain

\* handler 1 credits N points (a purchase of N KZT by a Bronze partner, or a
\* bonus of N); once it has answered, handler 2 redeems reward r1
NextRT ==
    \/ /\ req[1].pc = "idle"
       /\ Begin(1, "POST /transactions", "p1", "", 100 * rewards["r1"].pointsRequired)
    \/ ReadPartner(1)
    \/ \E failAt \in 0..3 : EarnTransaction(1, failAt)
    \/ /\ req[1].pc = "idle"
       /\ \E failAt \in 0..3 :
              awardBonusPoints(1, "p1", rewards["r1"].pointsRequired, failAt)
    \/ /\ req[1].pc = "done"
       /\ \E route \in RedemptionRoutes : BeginOnce(2, route, "p1", "r1")
    \/ ReadReward(2)
    \/ ReadPoints(2)
    \/ \E failAt \in 0..4 : RedeemTransaction(2, failAt)

SpecRT == InitRT /\ [][NextRT]_vars

\* ------------------------------- requests of a suspended or banned partner
\* partner p1, holding 100 points, has been suspended or banned; reward r1 costs
\* 100 and is in stock
InitS ==
    \E st \in {"SUSPENDED", "BANNED"} :
        /\ partners = ("p1" :> [tier |-> "BRONZE", status |-> st])
        /\ loyaltyPoints = ("p1" :> [balance |-> 100, lifetimeEarned |-> 100,
                                     lifetimeRedeemed |-> 0])
        /\ transactions = SetToBag({[partnerId |-> "p1", amount |-> 0,
                                     pointsEarned |-> 100, type |-> "BONUS"]})
        /\ rewards = ("r1" :> [pointsRequired |-> 100, available |-> 1,
                               maxClaims |-> 0, totalClaimed |-> 0,
                               isActive |-> TRUE])
        /\ claimedRewards = EmptyBag
        /\ req = [h \in Handlers |-> IdleReq]
        /\ InitChain

NextS ==
    \/ \E h \in 1..2, route \in Routes, amount \in AmountChoices :
          Begin(h, route, "p1",
                IF route = "POST /transactions" THEN "" ELSE "r1",
                IF route = "POST /transactions" THEN amount ELSE 0)
    \/ \E h \in 1..2 : ReadReward(h)
    \/ \E h \in 1..2 : ReadPoints(h)
    \/ \E h \in 1..2 : RedeemTransaction(h, 0)
    \/ \E h \in 1..2 : ReadPartner(h)   \* ends the earning: the partner is not ACTIVE

SpecS == InitS /\ [][NextS]_vars

\* --------------------------------------------- purchases of every tier
Tiers == {"BRONZE", "SILVER", "GOLD"}
\* amounts in 1/100 KZT: 0.50, 1.00, 1.50, 3.33, 100.50 and 1000 KZT
EarnAmounts == {50, 100, 150, 333, 10050, 100000}

\* an ACTIVE partner of some tier that has not earned yet
InitE ==
    \E tier \in Tiers :
        /\ partners = ("p1" :> [tier |-> tier, status |-> "ACTIVE"])
        /\ loyaltyPoints = ("p1" :> [balance |-> 0, lifetimeEarned |-> 0,
                                     lifetimeRedeemed |-> 0])
        /\ transactions = EmptyBag
        /\ rewards = EmptyTable
        /\ claimedRewards = EmptyBag
        /\ req = [h \in Handlers |-> IdleReq]
        /\ InitChain

NextE ==
    \/ \E h \in 1..2, amount \in EarnAmounts :
          /\ req[h].pc = "idle"
          /\ Begin(h, "POST /transactions", "p1", "", amount)
    \/ \E h \in 1..2 : ReadPartner(h)
    \/ \E h \in 1..2, failAt \in 0..3 : EarnTransaction(h, failAt)

SpecE == InitE /\ [][NextE]_vars

\* ------------------------------------------------- earnings and tier checks
\* lifetimeEarned at the start: at and just below the thresholds
TierStartEarned == {0, 9999, 10000, 49999, 50000}
\* purchases of 1 KZT and of 40000 KZT
TierAmounts == {100, 4000000}

\* an ACTIVE partner p1 of any tier (an administrator may have set it) that has
\* earned its points as one PROMOTION; reward r1 costs 100
InitT ==
    \E tier \in Tiers, e \in TierStartEarned :
        /\ partners = ("p1" :> [tier |-> tier, status |-> "ACTIVE"])
        /\ loyaltyPoints = ("p1" :> [balance |-> e, lifetimeEarned |-> e,
                                     lifetimeRedeemed |-> 0])
        /\ transactions =
              IF e = 0 THEN EmptyBag
              ELSE SetToBag({[partnerId |-> "p1", amount |-> 0,
                              pointsEarned |-> e, type |-> "PROMOTION"]})
        /\ rewards = ("r1" :> [pointsRequired |-> 100, available |-> 1,
                               maxClaims |-> 0, totalClaimed |-> 0,
                               isActive |-> TRUE])
        /\ claimedRewards = EmptyBag
        /\ req = [h \in Handlers |-> IdleReq]
        /\ InitChain

NextT ==
    \/ \E h \in 1..2, amount \in TierAmounts :
          Begin(h, "POST /transactions", "p1", "", amount)
    \/ \E h \in 1..2 : ReadPartner(h)
    \/ \E h \in 1..2 : EarnTransaction(h, 0)
    \/ \E h \in 1..2 : CheckTierRead(h, "p1")
    \/ \E h \in 1..2 : CheckTierUpdate(h, FALSE)
    \/ \E h \in 1..2 : Begin(h, "POST /loyalty/redeem", "p1", "r1", 0)
    \/ \E h \in 1..2 : ReadReward(h)
    \/ \E h \in 1..2 : ReadPoints(h)
    \/ \E h \in 1..2 : RedeemTransaction(h, 0)

SpecT == InitT /\ [][NextT]_vars

\* the same requests, with the tier evaluations one after the other: only
\* handler 1 runs checkTierUpgrade
NextT1 ==
    \/ \E h \in 1..2, amount \in TierAmounts :
          Begin(h, "POST /transactions", "p1", "", amount)
    \/ \E h \in 1..2 : ReadPartner(h)
    \/ \E h \in 1..2 : EarnTransaction(h, 0)
    \/ CheckTierRead(1, "p1")
    \/ CheckTierUpdate(1, FALSE)
    \/ \E h \in 1..2 : Begin(h, "POST /loyalty/redeem", "p1", "r1", 0)
    \/ \E h \in 1..2 : ReadReward(h)
    \/ \E h \in 1..2 : ReadPoints(h)
    \/ \E h \in 1..2 : RedeemTransaction(h, 0)

SpecT1 == InitT /\ [][NextT1]_vars

\* tier evaluations of both handlers, whose tier update may fail, with earnings
NextU ==
    \/ \E h \in 1..2, amount \in TierAmounts :
          Begin(h, "POST /transactions", "p1", "", amount)
    \/ \E h \in 1..2 : ReadPartner(h)
    \/ \E h \in 1..2 : EarnTransaction(h, 0)
    \/ \E h \in 1..2 : CheckTierRead(h, "p1")
    \/ \E h \in 1..2, fails \in BOOLEAN : CheckTierUpdate(h, fails)

SpecU == InitT /\ [][NextU]_vars

\* ------------- redemptions while the administrator edits the reward
StartBalance == 500

\* the administrator changes the price or switches the reward off and on
EditPatches ==
    {[NoRewardPatch EXCEPT !.pointsRequired = <<v>>] : v \in PointsRequiredChoices}
    \cup {[NoRewardPatch EXCEPT !.isActive = <<v>>] : v \in BOOLEAN}

InitQ ==
    /\ partners = ("p1" :> [tier |-> "BRONZE", status |-> "ACTIVE"])
    /\ loyaltyPoints = ("p1" :> [balance |-> StartBalance,
                                 lifetimeEarned |-> StartBalance,
                                 lifetimeRedeemed |-> 0])
    /\ transactions = SetToBag({[partnerId |-> "p1", amount |-> 0,
                                 pointsEarned |-> StartBalance, type |-> "BONUS"]})
    /\ rewards = ("r1" :> [pointsRequired |-> 100, available |-> NumHandlers,
                           maxClaims |-> 0, totalClaimed |-> 0, isActive |-> TRUE])
    /\ claimedRewards = EmptyBag
    /\ req = [h \in Handlers |-> IdleReq]
    /\ InitChain

NextQ ==
    \/ \E h \in Handlers, route \in RedemptionRoutes : BeginOnce(h, route, "p1", "r1")
    \/ \E h \in Handlers : ReadReward(h)
    \/ \E h \in Handlers : ReadPoints(h)
    \/ \E h \in Handlers, failAt \in 0..4 : RedeemTransaction(h, failAt)
    \/ \E data \in EditPatches : UpdateReward("a1", "r1", data)

SpecQ == InitQ /\ [][NextQ]_vars

\* -------------- earnings while the administrator edits the partner
InitV ==
    \E tier \in Tiers :
        /\ partners = ("p1" :> [tier |-> tier, status |-> "ACTIVE"])
        /\ loyaltyPoints = ("p1" :> [balance |-> 0, lifetimeEarned |-> 0,
                                     lifetimeRedeemed |-> 0])
        /\ transactions = EmptyBag
        /\ rewards = EmptyTable
        /\ claimedRewards = EmptyBag
        /\ req = [h \in Handlers |-> IdleReq]
        /\ InitChain

NextV ==
    \/ \E h \in Handlers, amount \in AmountChoices :
          Begin(h, "POST /transactions", "p1", "", amount)
    \/ \E h \in Handlers : ReadPartner(h)
    \/ \E h \in Handlers, failAt \in 0..3 : EarnTransaction(h, failAt)
    \/ \E data \in SeqPartnerPatches : UpdatePartner("a1", "p1", data)

SpecV == InitV /\ [][NextV]_vars

\* ------------------------------------- PATCH /partners/:id by every caller
PatchPartners == {"p1", "p2"}
PatchStatuses == {"ACTIVE", "BANNED"}
CompanyNames == {"Candy Ltd"}

\* request bodies: each of companyName, tier and status present or absent
PatchBodies ==
    [companyName : {<<>>} \cup {<<n>> : n \in CompanyNames},
     tier : {<<>>} \cup {<<t>> : t \in Tiers},
     status : {<<>>} \cup {<<st>> : st \in PatchStatuses}]

InitW ==
    \E t1 \in Tiers, s1 \in {"PENDING", "ACTIVE"} :
        /\ partners = ("p1" :> [tier |-> t1, status |-> s1, companyName |-> "Sweet Co"])
                       @@ ("p2" :> [tier |-> "BRONZE", status |-> "PENDING",
                                    companyName |-> "Sweet Co"])
        /\ loyaltyPoints = [p \in PatchPartners |->
                               [balance |-> 0, lifetimeEarned |-> 0,
                                lifetimeRedeemed |-> 0]]
        /\ transactions = EmptyBag
        /\ rewards = EmptyTable
        /\ claimedRewards = EmptyBag
        /\ req = [h \in Handlers |-> IdleReq]
        /\ InitChain

NextW ==
    \E user \in PatchPartners \cup AdminIds, id \in PatchPartners \cup {"p3"},
       data \in PatchBodies : UpdatePartner(user, id, data)

SpecW == InitW /\ [][NextW]_vars

\* ================================================================== claims
RECURSIVE EarnedIn(_, _)
\* the sum of pointsEarned over partner p's rows among the rows S of transactions
EarnedIn(S, p) ==
    IF S = {} THEN 0
    ELSE LET t == CHOOSE x \in S : TRUE
         IN (IF t.partnerId = p THEN CopiesIn(t, transactions) * t.pointsEarned ELSE 0)
            + EarnedIn(S \ {t}, p)

EarnedBy(p) == EarnedIn(BagToSet(transactions), p)

AllDone == \A h \in Handlers : req[h].pc = "done"
Succeeded == {h \in Handlers : req[h].pc = "done" /\ req[h].result = "OK"}

\* C1: every LoyaltyAccount has balance = lifetimeEarned - lifetimeRedeemed, in
\* every reachable state of interleaved earnings and redemptions.
C1_BalanceIdentity ==
    \A p \in DOMAIN loyaltyPoints :
        loyaltyPoints[p].balance =
            loyaltyPoints[p].lifetimeEarned - loyaltyPoints[p].lifetimeRedeemed

\* an account that has been credited by a purchase and by a bonus and debited
C1_Witness ==
    \E p \in DOMAIN loyaltyPoints :
        /\ loyaltyPoints[p].lifetimeRedeemed > 0
        /\ \E t \in BagToSet(transactions) : t.partnerId = p /\ t.type = "PURCHASE"
        /\ \E t \in BagToSet(transactions) : t.partnerId = p /\ t.type = "BONUS"

\* C2: every LoyaltyAccount has balance >= 0 under any interleaving of concurrent
\* earning and redemption requests.
C2_BalanceNonNegative ==
    \A p \in DOMAIN loyaltyPoints : loyaltyPoints[p].balance >= 0

\* C3: of K >= 2 concurrent redemptions that each need the whole balance B,
\* exactly one succeeds, the others fail with InsufficientPoints, and the balance
\* ends at 0.
C3_OneOfKSucceeds ==
    AllDone =>
        /\ Cardinality(Succeeded) = 1
        /\ \A h \in Handlers \ Succeeded : req[h].result = "INSUFFICIENT_POINTS"
        /\ loyaltyPoints["p1"].balance = 0

\* C4: two partners claiming the last unit of a reward at once end with one
\* Pending Claim, one RewardOutOfStock, available = 0 and totalClaimed = 1.
C4_LastUnitClaimedOnce ==
    AllDone =>
        /\ Cardinality(Succeeded) = 1
        /\ \A h \in Handlers \ Succeeded : req[h].result = "REWARD_OUT_OF_STOCK"
        /\ BagCardinality(claimedRewards) = 1
        /\ \A c \in BagToSet(claimedRewards) : c.status = "PENDING"
        /\ rewards["r1"].available = 0
        /\ rewards["r1"].totalClaimed = 1

\* C5: every reward has available >= 0 under any interleaving of claims,
\* redemptions and administrator create/update operations.
C5_AvailableNonNegative ==
    \A r \in DOMAIN rewards : rewards[r].available >= 0

\* C6: every reward with maxClaims > 0 has totalClaimed <= maxClaims, whatever
\* available and maxClaims an administrator sets and whatever claims follow.
C6_TotalClaimedWithinMaxClaims ==
    \A r \in DOMAIN rewards :
        rewards[r].maxClaims > 0 => rewards[r].totalClaimed <= rewards[r].maxClaims

\* the rows a redemption handler validates in the step that ends its reads
ValidatedReward(h) ==
    IF req[h].gotReward THEN req[h].reward
    ELSE RewardView(findUnique(rewards, req[h].rewardId))

ValidatedPoints(h) ==
    IF req[h].gotPoints THEN req[h].points
    ELSE PointsView(findUnique(loyaltyPoints, req[h].user))

\* C7: a claim/redeem request reports the first failing check only, in the order
\* reward missing, reward inactive, out of stock, no account, insufficient
\* points; it goes on to the transaction only when all five pass.
C7_ValidationOrder ==
    [][\A h \in Handlers :
         (req[h].pc = "read" /\ IsRedemption(req[h]) /\ req'[h].pc # "read") =>
            LET reward == ValidatedReward(h)
                points == ValidatedPoints(h)
                failed(code) == req'[h].pc = "done" /\ req'[h].result = code
            IN IF reward = <<>> THEN failed("REWARD_NOT_FOUND")
               ELSE IF ~reward[1].isActive THEN failed("REWARD_INACTIVE")
               ELSE IF reward[1].available <= 0 THEN failed("REWARD_OUT_OF_STOCK")
               ELSE IF points = <<>> THEN failed("POINTS_NOT_FOUND")
               ELSE IF points[1].balance < reward[1].pointsRequired
                    THEN failed("INSUFFICIENT_POINTS")
               ELSE req'[h].pc = "tx"]_vars

\* a caller without an account has asked for a reward that does not exist and
\* been told RewardNotFound
C7_Witness ==
    \E h \in Handlers :
        /\ req[h].pc = "done"
        /\ req[h].route = "POST /rewards/:id/claim"
        /\ req[h].user \notin DOMAIN loyaltyPoints
        /\ req[h].rewardId \notin DOMAIN rewards
        /\ req[h].result = "REWARD_NOT_FOUND"

\* C8: a claim/redeem request that fails leaves the ledger, the reward and the
\* set of Claims unchanged (a partner with balance 100 asking for a 250-point
\* reward gets InsufficientPoints and keeps balance 100).
C8_FailedRequestChangesNothing ==
    [][\A h \in Handlers :
         (/\ req'[h] # req[h]
          /\ req'[h].pc = "done"
          /\ IsRedemption(req'[h])
          /\ req'[h].result # "OK")
         => UNCHANGED <<loyaltyPoints, rewards, claimedRewards, transactions>>]_vars

C8_Witness ==
    \E h \in Handlers :
        /\ req[h].pc = "done" /\ IsRedemption(req[h])
        /\ req[h].result = "INSUFFICIENT_POINTS"
        /\ req[h].user \in DOMAIN loyaltyPoints
        /\ loyaltyPoints[req[h].user].balance = 100
        /\ req[h].rewardId \in DOMAIN rewards
        /\ rewards[req[h].rewardId].pointsRequired = 250
        /\ claimedRewards = EmptyBag

\* C9: the debit, the Claim and the reward update of a redemption happen in one
\* step or not at all, also when the store fails inside the unit: no step debits
\* points, adds a Claim or counts a claim on a reward without the other two.
C9_RedemptionAtomic ==
    [][IF claimedRewards' = claimedRewards
       THEN /\ \A p \in DOMAIN loyaltyPoints :
                 loyaltyPoints'[p].lifetimeRedeemed = loyaltyPoints[p].lifetimeRedeemed
            /\ \A r \in DOMAIN rewards :
                 rewards'[r].totalClaimed = rewards[r].totalClaimed
       ELSE \E p \in DOMAIN loyaltyPoints, r \in DOMAIN rewards :
              LET c == [partnerId |-> p, rewardId |-> r,
                        pointsSpent |-> loyaltyPoints'[p].lifetimeRedeemed
                                          - loyaltyPoints[p].lifetimeRedeemed,
                        status |-> "PENDING"]
              IN /\ claimedRewards' = claimedRewards (+) SetToBag({c})
                 /\ c.pointsSpent > 0
                 /\ loyaltyPoints' = [loyaltyPoints EXCEPT ![p] =
                        [@ EXCEPT !.balance = @ - c.pointsSpent,
                                  !.lifetimeRedeemed = @ + c.pointsSpent]]
                 /\ rewards' = [rewards EXCEPT ![r] =
                        [@ EXCEPT !.available = @ - 1,
                                  !.totalClaimed = @ + 1]]]_vars

\* one redemption has committed and another has lost its transaction to a
\* storage failure
C9_Witness ==
    /\ claimedRewards # EmptyBag
    /\ \E h \in Handlers :
          /\ req[h].pc = "done" /\ IsRedemption(req[h])
          /\ req[h].result = "DATABASE_ERROR"

\* C10: a Transaction and its credit are persisted together or not at all: each
\* partner's lifetimeEarned is the sum of pointsEarned over its Transactions,
\* and an earning for a partner without a LoyaltyAccount fails as not-found with
\* no Transaction persisted.
C10_EarningRecordedWithCredit ==
    /\ \A p \in DOMAIN loyaltyPoints : loyaltyPoints[p].lifetimeEarned = EarnedBy(p)
    /\ \A t \in BagToSet(transactions) : t.partnerId \in DOMAIN loyaltyPoints
    /\ \A h \in Handlers :
          (/\ req[h].pc = "done"
           /\ req[h].route \in {"POST /transactions", "awardBonusPoints"}
           /\ req[h].user \in PartnerIds \ DOMAIN loyaltyPoints)
          => req[h].result \in {"NOT_FOUND", "P2025"}

\* what partner p1 had earned and redeemed before the round trip
StartEarned ==
    IF \E t \in BagToSet(transactions) : t.type = "PROMOTION"
    THEN (CHOOSE t \in BagToSet(transactions) : t.type = "PROMOTION").pointsEarned
    ELSE 0

StartRedeemed ==
    IF \E c \in BagToSet(claimedRewards) : c.status = "FULFILLED"
    THEN (CHOOSE c \in BagToSet(claimedRewards) : c.status = "FULFILLED").pointsSpent
    ELSE 0

RoundTripDone ==
    /\ req[1].pc = "done" /\ req[1].result = "OK"
    /\ req[2].pc = "done" /\ req[2].result = "OK"

\* C11: a credit of N points followed by a redemption costing N leaves the
\* balance at its starting value and lifetimeEarned and lifetimeRedeemed each
\* larger by N, from every starting account.
C11_RoundTrip ==
    RoundTripDone =>
        LET N == rewards["r1"].pointsRequired
        IN /\ loyaltyPoints["p1"].balance = StartEarned - StartRedeemed
           /\ loyaltyPoints["p1"].lifetimeEarned = StartEarned + N
           /\ loyaltyPoints["p1"].lifetimeRedeemed = StartRedeemed + N

\* the round trip has run on an account that had earned and redeemed before
C11_Witness ==
    /\ RoundTripDone
    /\ StartRedeemed > 0
    /\ req[1].route = "POST /transactions"
    /\ req[2].route = "POST /rewards/:id/claim"

\* the codes with which a request is refused for the status of its account
AccountInvalid == {"ACCOUNT_INVALID", "ACCOUNT_NOT_ACTIVE"}

\* C12: a Suspended or Banned partner never completes an earning or a
\* redemption: each of its requests is rejected with AccountInvalid, and the
\* ledger, the reward and the claims stay as they were.
C12_SuspendedOrBannedRejected ==
    /\ \A h \in Handlers :
          req[h].pc = "done" => req[h].result \in AccountInvalid
    /\ loyaltyPoints["p1"] = [balance |-> 100, lifetimeEarned |-> 100,
                              lifetimeRedeemed |-> 0]
    /\ rewards["r1"].available = 1 /\ rewards["r1"].totalClaimed = 0
    /\ claimedRewards = EmptyBag
    /\ BagCardinality(transactions) = 1

\* floor(floor(amount) * m) for an amount in 1/100 KZT, m = 1, 3/2, 2
FloorPoints(amount, tier) ==
    LET whole == amount \div 100
    IN CASE tier = "BRONZE" -> whole
         [] tier = "SILVER" -> (3 * whole) \div 2
         [] tier = "GOLD" -> 2 * whole

\* C13: the pointsEarned computed and stored for an earning is
\* floor(floor(amount) * m), m = 1.0, 1.5, 2.0 for Bronze, Silver, Gold, and it
\* is what the account is credited with (a Bronze partner at balance 0 buying for
\* 1000 gets pointsEarned 1000, balance 1000, lifetimeEarned 1000).
C13_PointsFormula ==
    /\ \A h \in Handlers :
          req[h].pc = "tx" =>
              req[h].pointsEarned = FloorPoints(req[h].amount, partners["p1"].tier)
    /\ \A t \in BagToSet(transactions) :
          t.pointsEarned = FloorPoints(t.amount, partners["p1"].tier)
    /\ loyaltyPoints["p1"].lifetimeEarned = EarnedBy("p1")
    /\ loyaltyPoints["p1"].balance = EarnedBy("p1")

\* a Bronze partner's purchase of 1000 KZT, stored with 1000 points
C13_Witness ==
    /\ partners["p1"].tier = "BRONZE"
    /\ transactions = SetToBag({[partnerId |-> "p1", amount |-> 100000,
                                 pointsEarned |-> 1000, type |-> "PURCHASE"]})
    /\ loyaltyPoints["p1"].balance = 1000
    /\ loyaltyPoints["p1"].lifetimeEarned = 1000

\* the tier a partner of tier `tier` with `earned` lifetime points is to hold
TierFor(earned, tier) ==
    CASE tier = "GOLD" -> "GOLD"
      [] tier = "SILVER" -> IF earned >= 50000 THEN "GOLD" ELSE "SILVER"
      [] tier = "BRONZE" -> IF earned >= 50000 THEN "GOLD"
                            ELSE IF earned >= 10000 THEN "SILVER" ELSE "BRONZE"

\* C14: tier evaluation upgrades to Gold at lifetimeEarned >= 50000 from any
\* lower tier (from Bronze directly), else to Silver at >= 10000 from Bronze,
\* and else leaves the tier alone and reports no upgrade.
C14_TierEvaluation ==
    [][\A h \in Handlers :
         /\ (req[h].pc \in {"idle", "done"} /\ req'[h] # req[h]
                /\ req'[h].route = "checkTierUpgrade") =>
               LET tier == partners["p1"].tier
                   target == TierFor(loyaltyPoints["p1"].lifetimeEarned, tier)
               IN /\ partners' = partners
                  /\ IF target = tier
                     THEN req'[h].pc = "done" /\ req'[h].result = "false"
                     ELSE req'[h].pc = "tierUpdate" /\ req'[h].newTier = target
         /\ (req[h].pc = "tierUpdate" /\ req'[h] # req[h]) =>
               /\ partners'["p1"].tier = req[h].newTier
               /\ req'[h].pc = "done" /\ req'[h].result = "true"]_vars

\* a Bronze partner whose purchase took it to 50000 lifetime points is being
\* made Gold, without having been Silver
C14_Witness ==
    /\ partners["p1"].tier = "BRONZE"
    /\ loyaltyPoints["p1"].lifetimeEarned = 50000
    /\ \E t \in BagToSet(transactions) : t.type = "PURCHASE" /\ t.pointsEarned = 40000
    /\ \E h \in Handlers : req[h].pc = "tierUpdate" /\ req[h].newTier = "GOLD"

\* C15: when a Bronze partner's earning brings its lifetimeEarned from 9999 to
\* 10000 or more, the partner is Silver once that earning is answered
\* (so that its next earning is computed with multiplier 1.5).
C15_EarningUpgradesToSilver ==
    [][\A h \in Handlers :
         (/\ req[h].pc = "tx" /\ req[h].route = "POST /transactions"
          /\ req'[h].pc = "done" /\ req'[h].result = "OK"
          /\ partners["p1"].tier = "BRONZE"
          /\ loyaltyPoints["p1"].lifetimeEarned = 9999
          /\ loyaltyPoints'["p1"].lifetimeEarned >= 10000)
         => partners'["p1"].tier = "SILVER"]_vars

\* C16: once a partner's tier is Gold, no sequence of earnings and
\* redemptions, with the tier evaluated after them, returns it to Silver or
\* Bronze.
C16_GoldIsKept ==
    [][partners["p1"].tier = "GOLD" => partners'["p1"].tier = "GOLD"]_vars

\* a Gold partner has earned and redeemed, and the evaluation that followed
\* left it Gold
C16_Witness ==
    /\ partners["p1"].tier = "GOLD"
    /\ claimedRewards # EmptyBag
    /\ \E t \in BagToSet(transactions) : t.type = "PURCHASE"
    /\ req[1].pc = "done" /\ req[1].route = "checkTierUpgrade"
    /\ req[1].result = "false"

\* how often handler h has emitted event e for its request
EmitCount(h, e) ==
    Cardinality({i \in 1..Len(req[h].emitted) : req[h].emitted[i] = e})

\* C17: a committed earning is followed by exactly one transactionCreated and
\* one balanceChanged notification, a committed redemption through either
\* endpoint by exactly one rewardClaimed and one balanceChanged; nothing is
\* emitted before the commit or for a request that failed.
C17_NotificationsAfterCommit ==
    \A h \in Handlers :
        IF req[h].pc = "done" /\ req[h].result = "OK"
        THEN /\ req[h].route = "POST /transactions" =>
                  /\ EmitCount(h, "transaction:created") = 1
                  /\ EmitCount(h, "balance:updated") = 1
             /\ IsRedemption(req[h]) =>
                  /\ EmitCount(h, "reward:claimed") = 1
                  /\ EmitCount(h, "balance:updated") = 1
        ELSE req[h].emitted = <<>>

\* the commission the claims expect for a recorded transaction
ExpectedCommission(r) ==
    LET rate == CASE r.tier = "Bronze" -> 300
                  [] r.tier = "Silver" -> 500
                  [] r.tier = "Gold" -> 700
    IN (r.amount * rate) \div 10000

ExpectedPlatformFee(r) == (r.amount * 100) \div 10000

\* C18: commission = amount * rate / 10000 with rate 300, 500, 700 for Bronze,
\* Silver, Gold and platformFee = amount * 100 / 10000, both truncated, and
\* recordTransaction adds exactly these to the partner's pendingPayout and to
\* platformBalance (Gold, 100000: 7000 and 1000).
C18_CommissionAndFee ==
    [][Len(calls'.recorded) = Len(calls.recorded) + 1 =>
         LET r == calls'.recorded[Len(calls'.recorded)]
         IN /\ PendingPayout(revenue', r.partner) =
                  PendingPayout(revenue, r.partner) + ExpectedCommission(r)
            /\ revenue'.platform_balance =
                  revenue.platform_balance + ExpectedPlatformFee(r)
            /\ \A a \in ChainPartners \ {r.partner} :
                  PendingPayout(revenue', a) = PendingPayout(revenue, a)
            /\ revenue'.total_distributed = revenue.total_distributed
            /\ (r.tier = "Gold" /\ r.amount = 100000) =>
                  /\ ExpectedCommission(r) = 7000
                  /\ ExpectedPlatformFee(r) = 1000]_vars

\* a Gold transaction of 100000 has been recorded: 7000 pending, 1000 of fee
C18_Witness ==
    /\ calls.recorded = <<[partner |-> "EQp1", amount |-> 100000, tier |-> "Gold"]>>
    /\ PendingPayout(revenue, "EQp1") = 7000
    /\ revenue.platform_balance = 1000

RECURSIVE SumRecorded(_, _, _)
\* the expected commissions of partner a among the first n recorded transactions
SumRecorded(log, n, a) ==
    IF n = 0 THEN 0
    ELSE (IF log[n].partner = a THEN ExpectedCommission(log[n]) ELSE 0)
         + SumRecorded(log, n - 1, a)

RECURSIVE SumPaid(_, _, _)
\* the amounts paid to the partners in S by the first n payout records
SumPaid(history, n, S) ==
    IF n = 0 THEN 0
    ELSE (IF history[n].partner \in S THEN history[n].amount ELSE 0)
         + SumPaid(history, n - 1, S)

RecordedFor(a) == SumRecorded(calls.recorded, Len(calls.recorded), a)
DistributedTo(a) == SumPaid(revenue.payout_history, Len(revenue.payout_history), {a})

\* each partner's recorded commissions are pending or distributed to it, and
\* the distributed total is what the payout records add up to
CommissionsAccountedFor ==
    /\ \A a \in ChainPartners :
          RecordedFor(a) = PendingPayout(revenue, a) + DistributedTo(a)
    /\ revenue.total_distributed =
          SumPaid(revenue.payout_history, Len(revenue.payout_history), ChainPartners)
    /\ revenue.payout_count = Len(revenue.payout_history)

\* C19: distributeCommission(p) with pendingPayout[p] = x > 0 sets it to 0, adds
\* x to the distributed total and adds one payout record, in one step; with
\* pendingPayout[p] = 0 it fails with NoPendingPayout and changes nothing. So
\* each partner's recorded commissions equal its pendingPayout plus what was
\* distributed to it.
C19_DistributeCommission ==
    /\ CommissionsAccountedFor
    /\ [][/\ CommissionsAccountedFor'
          /\ (calls'.last # calls.last \/ (calls' = calls /\ revenue' # revenue)) =>
                LET a == calls'.last[1]
                    result == calls'.last[2]
                    x == PendingPayout(revenue, a)
                IN IF result = "OK"
                   THEN /\ x > 0
                        /\ revenue' =
                              [revenue EXCEPT
                                 !.total_distributed = @ + x,
                                 !.pending_payouts = SetPending(revenue, a, 0),
                                 !.payout_count = @ + 1,
                                 !.payout_history =
                                     Append(@, [partner |-> a, amount |-> x])]
                   ELSE /\ revenue' = revenue
                        /\ result = "NoPendingPayout" => x = 0
                        /\ x = 0 => result \in {"NoPendingPayout", "Internal"}]_vars

\* a payout of 7000 has been made, and a second request for the same partner
\* has been refused with NoPendingPayout
C19_Witness ==
    /\ revenue.payout_history = <<[partner |-> "EQp1", amount |-> 7000]>>
    /\ revenue.total_distributed = 7000
    /\ PendingPayout(revenue, "EQp1") = 0
    /\ calls.last = <<"EQp1", "NoPendingPayout">>

BatchFinished == calls.next > Len(calls.batch)

\* the outcomes so far are those of the partners handled so far, the contract
\* works on the list that was requested, and no partner has been paid more
\* than was recorded for it
BatchOutcomes ==
    /\ calls.batch = calls.requested
    /\ Len(calls.results) = calls.next - 1
    /\ BatchFinished => Len(calls.results) = Len(calls.requested)
    /\ \A a \in ChainPartners : DistributedTo(a) <= RecordedFor(a)

\* C20: batchDistribute applies distributeCommission to each listed partner
\* independently: a partner's failure leaves the storage as the earlier units
\* left it and the later units still run, a paid partner's unit touches only
\* that partner, the result has one outcome per listed partner, and a partner
\* whose pending amount was paid is not paid again for it.
C20_BatchDistribute ==
    /\ BatchOutcomes
    /\ [][/\ BatchOutcomes'
          /\ (calls'.next = calls.next + 1 /\ calls'.batch = calls.batch) =>
                LET a == calls.batch[calls.next]
                    outcome == calls'.results[Len(calls'.results)]
                    x == PendingPayout(revenue, a)
                IN /\ calls'.results = Append(calls.results, outcome)
                   /\ IF outcome = "OK"
                      THEN /\ x > 0
                           /\ PendingPayout(revenue', a) = 0
                           /\ revenue'.payout_history =
                                 Append(revenue.payout_history,
                                        [partner |-> a, amount |-> x])
                           /\ revenue'.total_distributed =
                                 revenue.total_distributed + x
                           /\ \A b \in ChainPartners \ {a} :
                                 PendingPayout(revenue', b) = PendingPayout(revenue, b)
                      ELSE /\ revenue' = revenue
                           /\ outcome = "NoPendingPayout" => x = 0]_vars

\* EQp2 was paid its 7000 earlier; the batch on <<EQp2, EQp1>> then refuses
\* EQp2 with NoPendingPayout, pays it nothing more, and still pays EQp1
C20_Witness ==
    /\ calls.requested = <<"EQp2", "EQp1">>
    /\ BatchFinished
    /\ calls.results = <<"NoPendingPayout", "OK">>
    /\ revenue.payout_history = <<[partner |-> "EQp2", amount |-> 7000],
                                  [partner |-> "EQp1", amount |-> 99]>>
    /\ PendingPayout(revenue, "EQp1") = 0
    /\ PendingPayout(revenue, "EQp2") = 0

AdminOnlyOps ==
    {<<"PartnerRegistry", "registerPartner">>, <<"LoyaltyToken", "mint">>,
     <<"LoyaltyToken", "changeAdmin">>}

\* the admin a message to the named contract is checked against
CurrentAdmin(to) ==
    IF to = "PartnerRegistry" THEN registry.admin_address ELSE token.admin_address

NewAccount == [balance |-> 0, lifetimeEarned |-> 0, lifetimeRedeemed |-> 0]

\* C23: a registration creates, in the same step, the partner in status Pending
\* and tier Bronze and its one LoyaltyAccount with balance, lifetimeEarned and
\* lifetimeRedeemed 0; in every reachable state the partners and the
\* LoyaltyAccounts (one row per partner id) are the same set.
C23_AccountWithRegistration ==
    /\ [](DOMAIN loyaltyPoints = DOMAIN partners)
    /\ [][\A p \in DOMAIN partners' \ DOMAIN partners :
            /\ partners'[p] = [tier |-> "BRONZE", status |-> "PENDING"]
            /\ p \notin DOMAIN loyaltyPoints
            /\ p \in DOMAIN loyaltyPoints'
            /\ loyaltyPoints'[p] = NewAccount]_vars

\* p1 has registered: it is Pending and Bronze and its one account holds zeros
C23_Witness ==
    /\ DOMAIN partners = {"p1"}
    /\ partners["p1"] = [tier |-> "BRONZE", status |-> "PENDING"]
    /\ DOMAIN loyaltyPoints = {"p1"}
    /\ loyaltyPoints["p1"] = NewAccount

TierRank(tier) ==
    CASE tier = "BRONZE" -> 1 [] tier = "SILVER" -> 2 [] tier = "GOLD" -> 3

\* C24: under any interleaving of concurrent checkTierUpgrade calls for one
\* partner with earnings that raise its lifetimeEarned, no step lowers the
\* partner's tier.
C24_TierNeverLowered ==
    [][TierRank(partners'["p1"].tier) >= TierRank(partners["p1"].tier)]_vars

\* C25: a tier:upgraded notification carrying (oldTier, newTier) is emitted
\* only by the step that persists the new tier, for a tier that this step
\* changes from oldTier to newTier, and never by an evaluation that leaves the
\* tier unchanged or whose tier update fails.
C25_TierUpgradedAfterPersist ==
    [][\A h \in Handlers :
         (req'[h] # req[h] /\ req'[h].route = "checkTierUpgrade") =>
            IF req'[h].emitted = <<"tier:upgraded">>
            THEN /\ req[h].pc = "tierUpdate"
                 /\ req'[h].result = "true"
                 /\ partners["p1"].tier = req'[h].oldTier
                 /\ partners'["p1"].tier = req'[h].newTier
                 /\ partners'["p1"].tier # partners["p1"].tier
            ELSE /\ req'[h].emitted = <<>>
                 /\ partners' = partners]_vars

TierOrStatusChanged ==
    \E p \in DOMAIN partners :
        \/ partners'[p].tier # partners[p].tier
        \/ partners'[p].status # partners[p].status

\* C26: a partner-authenticated PATCH /partners/:id changes no partner's tier
\* or status, whatever its body carries, and no field of a partner other than
\* the caller; a step that changes a tier or a status is an admin's request.
C26_PartnerPatchFrame ==
    [][/\ \A user \in PatchPartners, id \in PatchPartners \cup {"p3"},
             data \in PatchBodies :
             UpdatePartner(user, id, data) =>
                /\ ~TierOrStatusChanged
                /\ \A p \in DOMAIN partners \ {user} : partners'[p] = partners[p]
                /\ DOMAIN partners' = DOMAIN partners
       /\ TierOrStatusChanged =>
             \E user \in AdminIds, id \in PatchPartners, data \in PatchBodies :
                UpdatePartner(user, id, data)]_vars

\* p1, still Bronze and Pending, has changed its own company name while p2 has
\* been made Gold and Active by the administrator
C26_Witness ==
    /\ partners["p1"] = [tier |-> "BRONZE", status |-> "PENDING",
                         companyName |-> "Candy Ltd"]
    /\ partners["p2"] = [tier |-> "GOLD", status |-> "ACTIVE",
                         companyName |-> "Sweet Co"]

RECURSIVE SpentIn(_, _)
\* the sum of pointsSpent over partner p's rows among the rows S of claimedRewards
SpentIn(S, p) ==
    IF S = {} THEN 0
    ELSE LET c == CHOOSE x \in S : TRUE
         IN (IF c.partnerId = p THEN CopiesIn(c, claimedRewards) * c.pointsSpent ELSE 0)
            + SpentIn(S \ {c}, p)

RECURSIVE ClaimsIn(_, _)
\* the number of reward r's rows among the rows S of claimedRewards
ClaimsIn(S, r) ==
    IF S = {} THEN 0
    ELSE LET c == CHOOSE x \in S : TRUE
         IN (IF c.rewardId = r THEN CopiesIn(c, claimedRewards) ELSE 0)
            + ClaimsIn(S \ {c}, r)

\* C27: each partner's lifetimeRedeemed is the sum of pointsSpent over its
\* Claims, each reward's totalClaimed is the number of its Claims, and every
\* Claim is Pending, also when the administrator changes the reward's price
\* while a redemption is under way.
C27_ClaimsMatchLedger ==
    /\ \A p \in DOMAIN loyaltyPoints :
          /\ loyaltyPoints[p].lifetimeRedeemed = SpentIn(BagToSet(claimedRewards), p)
          /\ loyaltyPoints[p].balance =
                loyaltyPoints[p].lifetimeEarned - SpentIn(BagToSet(claimedRewards), p)
    /\ \A r \in DOMAIN rewards :
          rewards[r].totalClaimed = ClaimsIn(BagToSet(claimedRewards), r)
    /\ \A c \in BagToSet(claimedRewards) : c.status = "PENDING"

\* a redemption read the price 100, the administrator raised it to 250, and
\* the redemption then committed: 100 was debited and the Claim says 100
C27_Witness ==
    /\ rewards["r1"].pointsRequired = 250
    /\ rewards["r1"].totalClaimed = 1
    /\ claimedRewards = SetToBag({[partnerId |-> "p1", rewardId |-> "r1",
                                   pointsSpent |-> 100, status |-> "PENDING"]})
    /\ loyaltyPoints["p1"] = [balance |-> StartBalance - 100,
                              lifetimeEarned |-> StartBalance,
                              lifetimeRedeemed |-> 100]

\* C28: no Claim is committed for a reward that is inactive when the
\* redemption's atomic unit commits, under any interleaving of a redemption with
\* an administrator's PATCH that sets isActive to false.
C28_NoClaimOnInactiveReward ==
    [][claimedRewards' # claimedRewards => rewards["r1"].isActive]_vars

\* C29: the pointsEarned of every committed Transaction is calculatePoints of
\* its amount with the multiplier of the tier the partner holds when the
\* Transaction commits, and no earning commits for a partner that is not
\* Active at that instant, also when an administrator changes the tier or
\* status while the earning request is under way.
C29_EarningUsesCurrentPartner ==
    [][\A h \in Handlers :
         (/\ req[h].pc = "tx" /\ req[h].route = "POST /transactions"
          /\ req'[h].pc = "done" /\ req'[h].result = "OK") =>
            /\ partners[req[h].user].status = "ACTIVE"
            /\ \E t \in BagToSet(transactions') :
                  /\ CopiesIn(t, transactions') = CopiesIn(t, transactions) + 1
                  /\ t.pointsEarned =
                        calculatePoints(req[h].amount,
                                        TIER_MULTIPLIERS(partners[req[h].user].tier))]_vars

\* the same request sent to the other redemption endpoint
OtherRoute(route) ==
    IF route = "POST /loyalty/redeem" THEN "POST /rewards/:id/claim"
    ELSE "POST /loyalty/redeem"

Twin(r) == [r EXCEPT !.route = OtherRoute(r.route)]

\* C30: for a partner caller, POST /rewards/:id/claim and POST /loyalty/redeem
\* with the same rewardId give the same outcome and the same change to the
\* LoyaltyAccount, the reward and the Claims: every step of a request to one
\* endpoint is the step the same request to the other endpoint takes from the
\* same state.
C30_EndpointsEquivalent ==
    [][\A h \in Handlers :
         (/\ req'[h] # req[h]
          /\ IsRedemption(req'[h])
          /\ UserType(req'[h].user) = "partner") =>
            LET outcome == IF req'[h].pc = "done" THEN req'[h].result ELSE ""
            IN IF req[h].pc \in {"idle", "done"}
               THEN /\ Middleware(OtherRoute(req'[h].route), req'[h].user) = outcome
                    /\ store' = store
               ELSE IF req[h].pc = "read"
               THEN /\ req'[h].pc # "read" =>
                          Validate([Twin(req[h]) EXCEPT
                                      !.reward = ValidatedReward(h),
                                      !.points = ValidatedPoints(h)]) = outcome
                    /\ store' = store
               ELSE \E failAt \in FailPoints(Statements(Twin(req[h]))) :
                      LET t == prismaTransaction(Db, Statements(Twin(req[h])), failAt)
                      IN /\ store' = <<t.db.partners, t.db.loyaltyPoints,
                                       t.db.transactions, t.db.rewards,
                                       t.db.claimedRewards>>
                         /\ outcome = IF t.error = "" THEN "OK"
                                      ELSE errorHandler(t.error)]_vars

\* p1's request to POST /rewards/:id/claim has succeeded, and r1 now has two
\* Claims by p1 of the same price
C30_Witness ==
    /\ req[1].pc = "done"
    /\ req[1].route = "POST /rewards/:id/claim"
    /\ req[1].result = "OK"
    /\ \E c \in BagToSet(claimedRewards) :
          /\ c.partnerId = "p1"
          /\ CopiesIn(c, claimedRewards) = 2
    /\ rewards["r1"].totalClaimed = 2

====
